---- MODULE Spec2Model ----
(***************************************************************************)
(* Model of minirank/ordinal.py: the threshold (cut-point) and multiclass  *)
(* ordinal regression fit/predict routines and the two estimator classes   *)
(* built on them.  Real numbers are modelled by small integers; the        *)
(* external minimizer (scipy.optimize.minimize, L-BFGS-B) is a black box   *)
(* that returns any point inside the box bounds it was given, with any     *)
(* success flag.                                                           *)
(***************************************************************************)
EXTENDS Integers, Sequences, FiniteSets, TLC

\* ------------------------------------------------------------------------
\* Bounds of the model
\* ------------------------------------------------------------------------
MaxClass == 3        \* largest n_class explored
MaxSamples == 2      \* largest number of rows of X / entries of y
MaxVal == 1          \* entries of X, w, c, W range over -MaxVal..MaxVal

Vals == (0 - MaxVal)..MaxVal

\* default iteration caps of the two fit routines
THRESHOLD_MAXITER == 10000
MULTICLASS_MAXITER == 5000000

\* ------------------------------------------------------------------------
\* numpy helpers
\* ------------------------------------------------------------------------
\* all sequences of length n over S
SeqN(S, n) == [1..n -> S]

\* all sequences of length lo..hi over S
SeqRange(S, lo, hi) == UNION {SeqN(S, n) : n \in lo..hi}

RECURSIVE SumSeq(_)
SumSeq(v) == IF Len(v) = 0 THEN 0 ELSE v[1] + SumSeq(Tail(v))

\* np.dot of two vectors of equal length
Dot(a, b) == SumSeq([k \in 1..Len(a) |-> a[k] * b[k]])

\* np.cumsum
cumsum(v) == [k \in 1..Len(v) |-> SumSeq(SubSeq(v, 1, k))]

\* np.sort (ascending)
sort(v) == SortSeq(v, LAMBDA a, b : a < b)

\* np.arange(n) = [0, 1, ..., n-1]
arange(n) == [k \in 1..n |-> k - 1]

\* np.argmax of a vector: 0-based index of the first maximal entry
argmax(v) ==
    (CHOOSE j \in 1..Len(v) :
        /\ \A k \in 1..Len(v) : v[k] <= v[j]
        /\ \A k \in 1..(j - 1) : v[k] < v[j]) - 1

\* ------------------------------------------------------------------------
\* threshold_predict(X, w, theta)
\* ------------------------------------------------------------------------
threshold_predict_lt(X, w, theta) ==
    [i \in 1..Len(X) |->
        Cardinality({k \in 1..Len(theta) : theta[k] - Dot(X[i], w) < 0})]

threshold_predict(X, w, theta) ==
    [i \in 1..Len(X) |->
        Cardinality({k \in 1..Len(theta) : theta[k] - Dot(X[i], w) <= 0})]

\* ------------------------------------------------------------------------
\* multiclass_predict(X, W): W has n_features+1 rows and n_class columns
\* ------------------------------------------------------------------------
\* X with a constant column of ones appended
AppendOnes(X) == [i \in 1..Len(X) |-> Append(X[i], 1)]

\* np.dot of a row vector with a matrix given as a sequence of rows
RowDot(x, W) ==
    [j \in 1..Len(W[1]) |-> SumSeq([f \in 1..Len(x) |-> x[f] * W[f][j]])]

multiclass_predict_1based(X, W) ==
    [i \in 1..Len(X) |-> argmax(RowDot(AppendOnes(X)[i], W)) + 1]

multiclass_predict(X, W) ==
    [i \in 1..Len(X) |-> argmax(RowDot(AppendOnes(X)[i], W))]

\* ------------------------------------------------------------------------
\* grad_margin, chain rule through theta = cumsum(c)
\* ------------------------------------------------------------------------
grad_c_full_cumsum(grad_theta) ==
    LET cs == cumsum(grad_theta)
    IN  [j \in 1..Len(grad_theta) |-> SumSeq(grad_theta) - cs[j]]

grad_c(grad_theta) ==
    LET tmp == <<0>> \o grad_theta
        cs  == cumsum(SubSeq(tmp, 1, Len(tmp) - 1))
    IN  [j \in 1..Len(grad_theta) |-> SumSeq(grad_theta) - cs[j]]

\* ------------------------------------------------------------------------
\* State
\* ------------------------------------------------------------------------
VARIABLES
    pc,       \* "idle", "minimize", "minimize2", "returned", "raised"
    fn,       \* function entered by the caller's last call
    caller,   \* "direct" (module function called) or "self" (estimator method)
    args,     \* arguments of the running / last call
    x0,       \* starting point of the minimizer invocation in progress
    bnds,     \* box bounds handed to the minimizer by this fit
    options,  \* options dict handed to the minimizer (its maxiter entry)
    sol,      \* the minimizer's latest answer [x, success]
    flags,    \* success flags reported by the minimizer during this fit
    printed,  \* number of diagnostics printed during this fit
    result,   \* value returned (or exception raised) by the last call
    self,     \* the estimator instance
    lastfit   \* history: what the fit routine last handed back to self.fit

vars == <<pc, fn, caller, args, x0, bnds, options, sol, flags, printed,
          result, self, lastfit>>

NFeatures == 1       \* number of columns of every X

Labels == (0 - 1)..MaxClass
Modes == {"AE", "0-1"}
MaxiterArg == 7      \* a non-default iteration cap

NoArgs == [none |-> TRUE]
NoSol == [x |-> <<>>, success |-> TRUE]
NoBounds == [none |-> TRUE, lower0 |-> <<>>]
NoResult == [kind |-> "none"]
NoSelf == [cls |-> "none"]

\* ------------------------------------------------------------------------
\* the external minimizer
\* ------------------------------------------------------------------------
\* a point x lies inside the box: coordinates whose bound is (0, None) are
\* non-negative, coordinates whose bound is (None, None) are free
InBox(x, b) ==
    b.none \/ \A k \in 1..Len(x) : b.lower0[k] => x[k] >= 0

\* the points the minimizer can return for a start x0 and bounds b
MinimizerPoints(start, b) == {x \in SeqN(Vals, Len(start)) : InBox(x, b)}

\* scipy rejects bounds whose length differs from that of x0
MinimizerRejects(start, b) == ~b.none /\ Len(b.lower0) # Len(start)

\* if not sol.success: print(sol.message)
Diagnostic_never(success, n) == n

Diagnostic(success, n) == IF ~success THEN n + 1 ELSE n

\* ------------------------------------------------------------------------
\* threshold_fit
\* ------------------------------------------------------------------------
\* building the weights matrix raises ValueError (negative dimension)
ThresholdEntryRaises(n_class, mode) ==
    IF mode = "AE" THEN n_class < 1 ELSE n_class < 2

\* the objective raises on its first evaluation inside the minimizer:
\* weights[y] indexes a matrix of n_class rows (negative labels down to
\* -n_class wrap around), and the boolean mask built from y must have the
\* shape of Alpha (IndexError in numpy >= 1.13)
ObjMarginRaises(n_samples, y, n_class) ==
    \/ \E i \in 1..Len(y) : y[i] >= n_class \/ y[i] < 0 - n_class
    \/ Len(y) # n_samples

\* [(None, None)] * (n_features + 1) + [(0, None)] * (n_class - 2)
ThresholdBounds_AllButW(n_features, n_class) ==
    [none |-> FALSE,
     lower0 |-> [k \in 1..(n_features + 1 +
                    (IF n_class > 2 THEN n_class - 2 ELSE 0)) |->
                    k > n_features]]

ThresholdBounds(n_features, n_class) ==
    [none |-> FALSE,
     lower0 |-> [k \in 1..(n_features + 1 +
                    (IF n_class > 2 THEN n_class - 2 ELSE 0)) |->
                    k > n_features + 1]]

\* x0 = zeros(n_features + n_class - 1); x0[n_features:] = arange(n_class - 1)
ThresholdX0(n_features, n_class) ==
    [k \in 1..(n_features + n_class - 1) |->
        IF k <= n_features THEN 0 ELSE k - n_features - 1]

\* lines 146-167: from entry to the invocation of the minimizer
ThresholdFitBegin(c, n_samples, y, n_class, mode, maxiter, bounds) ==
    /\ fn' = "threshold_fit"
    /\ caller' = c
    /\ args' = [n_samples |-> n_samples, n_features |-> NFeatures, y |-> y,
                n_class |-> n_class, mode |-> mode, maxiter |-> maxiter,
                bounds |-> bounds]
    /\ sol' = NoSol
    /\ flags' = <<>>
    /\ printed' = 0
    /\ IF ThresholdEntryRaises(n_class, mode)
       THEN /\ pc' = "raised"
            /\ result' = [kind |-> "error", at |-> "entry"]
            /\ x0' = <<>>
            /\ bnds' = NoBounds
            /\ options' = 0
       ELSE /\ pc' = "minimize"
            /\ result' = NoResult
            /\ x0' = ThresholdX0(NFeatures, n_class)
            /\ bnds' = IF bounds THEN ThresholdBounds(NFeatures, n_class)
                       ELSE NoBounds
            /\ options' = maxiter

\* w, c = sol.x[:n_features], sol.x[n_features:]; theta = cumsum(c)
ThresholdUnpack(x, n_features) ==
    [w |-> SubSeq(x, 1, n_features),
     theta |-> cumsum(SubSeq(x, n_features + 1, Len(x)))]

ThresholdReturn_nosort(x, n_features) ==
    ThresholdUnpack(x, n_features)

\* return w, np.sort(theta)
ThresholdReturn(x, n_features) ==
    [w |-> ThresholdUnpack(x, n_features).w,
     theta |-> sort(ThresholdUnpack(x, n_features).theta)]

\* attributes set by MarginOR.fit (line 234)
MarginOR_store_once(s, ret) ==
    IF s.fitted THEN s
    ELSE [s EXCEPT !.fitted = TRUE, !.w_ = ret.w, !.theta_ = ret.theta]

MarginOR_store(s, ret) ==
    [s EXCEPT !.fitted = TRUE, !.w_ = ret.w, !.theta_ = ret.theta]

\* exception leaving the fit routine while the minimizer runs
FitRaise(cond) ==
    /\ cond
    /\ pc' = "raised"
    /\ result' = [kind |-> "error", at |-> "minimizer"]
    /\ x0' = <<>>
    /\ UNCHANGED <<fn, caller, args, bnds, options, sol, flags, printed,
                   self, lastfit>>

threshold_fit_raise ==
    /\ pc = "minimize"
    /\ fn = "threshold_fit"
    /\ FitRaise(\/ MinimizerRejects(x0, bnds)
                \/ ObjMarginRaises(args.n_samples, args.y, args.n_class))

\* lines 165-172: the minimizer answers, the diagnostic, unpacking, the sort.
\* Called from MarginOR.fit (line 234) the returned pair is stored in the
\* instance and fit returns self; threshold_fit's arguments are gone then.
threshold_fit_end ==
    /\ pc = "minimize"
    /\ fn = "threshold_fit"
    /\ ~MinimizerRejects(x0, bnds)
    /\ ~ObjMarginRaises(args.n_samples, args.y, args.n_class)
    /\ \E x \in MinimizerPoints(x0, bnds), success \in BOOLEAN :
         LET ret == ThresholdReturn(x, args.n_features)
         IN  /\ sol' = [x |-> x, success |-> success]
             /\ flags' = Append(flags, success)
             /\ printed' = Diagnostic(success, printed)
             /\ pc' = "returned"
             /\ IF caller = "self"
                THEN /\ self' = MarginOR_store(self, ret)
                     /\ lastfit' = [done |-> TRUE, value |-> ret]
                     /\ result' = [kind |-> "self"]
                     /\ args' = NoArgs
                ELSE /\ result' = [kind |-> "params", value |-> ret]
                     /\ UNCHANGED <<self, lastfit, args>>
    /\ x0' = <<>>
    /\ UNCHANGED <<fn, caller, bnds, options>>

\* threshold_fit(X, y, alpha, n_class, mode, verbose, maxiter, bounds)
threshold_fit ==
    /\ pc = "idle"
    /\ self = NoSelf
    /\ \E n_samples \in 1..MaxSamples, y \in SeqRange(Labels, 1, MaxSamples),
          n_class \in 0..MaxClass, mode \in Modes,
          maxiter \in {THRESHOLD_MAXITER, MaxiterArg}, bounds \in BOOLEAN :
         ThresholdFitBegin("direct", n_samples, y, n_class, mode, maxiter,
                           bounds)
    /\ UNCHANGED <<self, lastfit>>

\* ------------------------------------------------------------------------
\* multiclass_fit
\* ------------------------------------------------------------------------
\* np.random.randn of a negative length raises ValueError
MulticlassEntryRaises(n_class) == n_class < 1

\* the objective raises on its first evaluation inside the minimizer:
\* 1./(n_class - 1.) divides by zero, Y[i, y[i]] and L[y] index out of
\* range, or L[y] and X.dot(W) - Y do not broadcast
ObjMulticlassRaises(n_samples, y, n_class) ==
    \/ n_class = 1
    \/ Len(y) < n_samples
    \/ \E i \in 1..Len(y) : y[i] >= n_class \/ y[i] < 0 - n_class
    \/ (Len(y) # n_samples /\ n_samples # 1)

\* lines 197-205: from entry to the first invocation of the minimizer
MulticlassFitBegin(c, n_samples, y, n_class, maxiter) ==
    /\ fn' = "multiclass_fit"
    /\ caller' = c
    /\ args' = [n_samples |-> n_samples, n_features |-> NFeatures, y |-> y,
                n_class |-> n_class, maxiter |-> maxiter]
    /\ sol' = NoSol
    /\ flags' = <<>>
    /\ printed' = 0
    /\ bnds' = NoBounds
    /\ IF MulticlassEntryRaises(n_class)
       THEN /\ pc' = "raised"
            /\ result' = [kind |-> "error", at |-> "entry"]
            /\ x0' = <<>>
            /\ options' = 0
       ELSE /\ pc' = "minimize"
            /\ result' = NoResult
            /\ x0' \in SeqN(Vals, (NFeatures + 1) * (n_class - 1))
            /\ options' = maxiter

\* W = sol.x.reshape((n_features + 1, n_class - 1))
Reshape(x, rows, cols) ==
    [f \in 1..rows |-> [j \in 1..cols |-> x[(f - 1) * cols + j]]]

MulticlassReturn_possum(x, n_features, n_class) ==
    LET W == Reshape(x, n_features + 1, n_class - 1)
    IN  [f \in 1..(n_features + 1) |-> Append(W[f], SumSeq(W[f]))]

\* Wk = - W.sum(1)[:, None]; W = np.concatenate((W, Wk), axis=1)
MulticlassReturn(x, n_features, n_class) ==
    LET W == Reshape(x, n_features + 1, n_class - 1)
    IN  [f \in 1..(n_features + 1) |-> Append(W[f], 0 - SumSeq(W[f]))]

\* attribute set by MulticlassOR.fit (line 255)
MulticlassOR_store_once(s, W) ==
    IF s.fitted THEN s ELSE [s EXCEPT !.fitted = TRUE, !.W_ = W]

MulticlassOR_store(s, W) == [s EXCEPT !.fitted = TRUE, !.W_ = W]

multiclass_fit_raise ==
    /\ pc \in {"minimize", "minimize2"}
    /\ fn = "multiclass_fit"
    /\ FitRaise(ObjMulticlassRaises(args.n_samples, args.y, args.n_class))

\* lines 203-209: the first minimization answers, the second one starts
\* from its point; the first answer's success flag is not looked at
multiclass_fit_restart ==
    /\ pc = "minimize"
    /\ fn = "multiclass_fit"
    /\ ~ObjMulticlassRaises(args.n_samples, args.y, args.n_class)
    /\ \E x \in MinimizerPoints(x0, bnds), success \in BOOLEAN :
         /\ sol' = [x |-> x, success |-> success]
         /\ flags' = Append(flags, success)
         /\ x0' = x
    /\ pc' = "minimize2"
    /\ UNCHANGED <<fn, caller, args, bnds, options, printed, result, self,
                   lastfit>>

\* lines 207-215: the second minimization answers, the diagnostic, W
multiclass_fit_end ==
    /\ pc = "minimize2"
    /\ fn = "multiclass_fit"
    /\ ~ObjMulticlassRaises(args.n_samples, args.y, args.n_class)
    /\ \E x \in MinimizerPoints(x0, bnds), success \in BOOLEAN :
         LET W == MulticlassReturn(x, args.n_features, args.n_class)
         IN  /\ sol' = [x |-> x, success |-> success]
             /\ flags' = Append(flags, success)
             /\ printed' = Diagnostic(success, printed)
             /\ pc' = "returned"
             /\ IF caller = "self"
                THEN /\ self' = MulticlassOR_store(self, W)
                     /\ lastfit' = [done |-> TRUE, value |-> W]
                     /\ result' = [kind |-> "self"]
                     /\ args' = NoArgs
                ELSE /\ result' = [kind |-> "params", value |-> W]
                     /\ UNCHANGED <<self, lastfit, args>>
    /\ x0' = <<>>
    /\ UNCHANGED <<fn, caller, bnds, options>>

\* multiclass_fit(X, y, alpha, n_class, maxiter)
multiclass_fit ==
    /\ pc = "idle"
    /\ self = NoSelf
    /\ \E n_samples \in 1..MaxSamples, y \in SeqRange(Labels, 1, MaxSamples),
          n_class \in 0..MaxClass,
          maxiter \in {MULTICLASS_MAXITER, MaxiterArg} :
         MulticlassFitBegin("direct", n_samples, y, n_class, maxiter)
    /\ UNCHANGED <<self, lastfit>>

\* ------------------------------------------------------------------------
\* direct calls of the pure functions
\* ------------------------------------------------------------------------
Matrices == SeqRange(SeqN(Vals, NFeatures), 1, MaxSamples)

\* a call that runs no minimizer leaves the fit's locals empty
NoFitLocals ==
    /\ x0' = <<>>
    /\ bnds' = NoBounds
    /\ options' = 0
    /\ sol' = NoSol
    /\ flags' = <<>>
    /\ printed' = 0

call_threshold_predict ==
    /\ pc = "idle"
    /\ self = NoSelf
    /\ \E X \in Matrices, w \in SeqN(Vals, NFeatures),
          theta \in SeqRange(Vals, 1, MaxClass - 1) :
         /\ args' = [X |-> X, w |-> w, theta |-> theta]
         /\ result' = [kind |-> "labels",
                       value |-> threshold_predict(X, w, theta)]
    /\ fn' = "threshold_predict"
    /\ caller' = "direct"
    /\ pc' = "returned"
    /\ NoFitLocals
    /\ UNCHANGED <<self, lastfit>>

call_multiclass_predict ==
    /\ pc = "idle"
    /\ self = NoSelf
    /\ \E X \in Matrices, n_class \in 2..MaxClass :
         \E W \in SeqN(SeqN(Vals, n_class), NFeatures + 1) :
            /\ args' = [X |-> X, W |-> W]
            /\ result' = [kind |-> "labels",
                          value |-> multiclass_predict(X, W)]
    /\ fn' = "multiclass_predict"
    /\ caller' = "direct"
    /\ pc' = "returned"
    /\ NoFitLocals
    /\ UNCHANGED <<self, lastfit>>

\* lines 84-85 of grad_margin, for the grad_theta computed at line 82
call_grad_margin ==
    /\ pc = "idle"
    /\ self = NoSelf
    /\ \E grad_theta \in SeqRange(Vals, 1, MaxClass - 1) :
         /\ args' = [grad_theta |-> grad_theta]
         /\ result' = [kind |-> "grad", value |-> grad_c(grad_theta)]
    /\ fn' = "grad_margin"
    /\ caller' = "direct"
    /\ pc' = "returned"
    /\ NoFitLocals
    /\ UNCHANGED <<self, lastfit>>

\* ------------------------------------------------------------------------
\* estimators
\* ------------------------------------------------------------------------
MaxEstClass == 2     \* largest n_class given to an estimator's constructor
ESTIMATOR_MAXITER == 10000

\* maxiter handed to threshold_fit by MarginOR.fit: the call at line 234
\* names no maxiter, so threshold_fit's default applies
MarginOR_fit_maxiter(s) == THRESHOLD_MAXITER

\* maxiter handed to multiclass_fit by MulticlassOR.fit (line 255)
MulticlassOR_fit_maxiter(s) == MULTICLASS_MAXITER

\* MarginOR.__init__ / MulticlassOR.__init__
Construct ==
    /\ pc = "idle"
    /\ self = NoSelf
    /\ \E n_class \in 2..MaxEstClass,
          maxiter \in {ESTIMATOR_MAXITER, MaxiterArg} :
         \/ \E mode \in Modes :
              self' = [cls |-> "MarginOR", n_class |-> n_class,
                       mode |-> mode, maxiter |-> maxiter,
                       fitted |-> FALSE, w_ |-> <<>>, theta_ |-> <<>>]
         \/ self' = [cls |-> "MulticlassOR", n_class |-> n_class,
                     maxiter |-> maxiter, fitted |-> FALSE, W_ |-> <<>>]
    /\ UNCHANGED <<pc, fn, caller, args, x0, bnds, options, sol, flags,
                   printed, result, lastfit>>

MarginOR_fit ==
    /\ pc \in {"idle", "returned", "raised"}
    /\ self.cls = "MarginOR"
    /\ \E n_samples \in 1..MaxSamples, y \in SeqRange(Labels, 1, MaxSamples) :
         ThresholdFitBegin("self", n_samples, y, self.n_class, self.mode,
                           MarginOR_fit_maxiter(self), FALSE)
    /\ UNCHANGED <<self, lastfit>>

MulticlassOR_fit ==
    /\ pc \in {"idle", "returned", "raised"}
    /\ self.cls = "MulticlassOR"
    /\ \E n_samples \in 1..MaxSamples, y \in SeqRange(Labels, 1, MaxSamples) :
         MulticlassFitBegin("self", n_samples, y, self.n_class,
                            MulticlassOR_fit_maxiter(self))
    /\ UNCHANGED <<self, lastfit>>

\* self.w_ / self.theta_ / self.W_ do not exist before the first fit
PredictBody(X, labels) ==
    /\ args' = [X |-> X]
    /\ caller' = "self"
    /\ fn' = "predict"
    /\ NoFitLocals
    /\ IF self.fitted
       THEN /\ pc' = "returned"
            /\ result' = [kind |-> "labels", value |-> labels]
       ELSE /\ pc' = "raised"
            /\ result' = [kind |-> "error", at |-> "AttributeError"]
    /\ UNCHANGED <<self, lastfit>>

MarginOR_predict ==
    /\ pc \in {"idle", "returned", "raised"}
    /\ self.cls = "MarginOR"
    /\ \E X \in Matrices :
         PredictBody(X, threshold_predict(X, self.w_, self.theta_))

MulticlassOR_predict ==
    /\ pc \in {"idle", "returned", "raised"}
    /\ self.cls = "MulticlassOR"
    /\ \E X \in Matrices :
         PredictBody(X, multiclass_predict(X, self.W_))

\* ------------------------------------------------------------------------
\* Specifications
\* ------------------------------------------------------------------------
Init ==
    /\ pc = "idle"
    /\ fn = "none"
    /\ caller = "direct"
    /\ args = NoArgs
    /\ x0 = <<>>
    /\ bnds = NoBounds
    /\ options = 0
    /\ sol = NoSol
    /\ flags = <<>>
    /\ printed = 0
    /\ result = NoResult
    /\ self = NoSelf
    /\ lastfit = [done |-> FALSE, value |-> <<>>]

\* the module's functions called directly; they keep no state between
\* calls, so a behaviour is one call
Next ==
    \/ threshold_fit
    \/ threshold_fit_raise
    \/ threshold_fit_end
    \/ multiclass_fit
    \/ multiclass_fit_raise
    \/ multiclass_fit_restart
    \/ multiclass_fit_end
    \/ call_threshold_predict
    \/ call_multiclass_predict
    \/ call_grad_margin

Spec == Init /\ [][Next]_vars

\* one estimator instance and the calls of its methods
NextEst ==
    \/ Construct
    \/ MarginOR_fit
    \/ MulticlassOR_fit
    \/ threshold_fit_raise
    \/ threshold_fit_end
    \/ multiclass_fit_raise
    \/ multiclass_fit_restart
    \/ multiclass_fit_end
    \/ MarginOR_predict
    \/ MulticlassOR_predict

SpecEst == Init /\ [][NextEst]_vars

\* ------------------------------------------------------------------------
\* Properties
\* ------------------------------------------------------------------------
IsFit == fn \in {"threshold_fit", "multiclass_fit"}

InRange(labels, n_class) ==
    \A i \in 1..Len(labels) : labels[i] \in 0..(n_class - 1)

\* C1: threshold_predict (theta of length n_class-1) and multiclass_predict
\* (W of n_class columns) return one label per sample, each in 0..n_class-1.
C1_LabelsInRange ==
    /\ (pc = "returned" /\ fn = "threshold_predict") =>
          /\ Len(result.value) = Len(args.X)
          /\ InRange(result.value, Len(args.theta) + 1)
    /\ (pc = "returned" /\ fn = "multiclass_predict") =>
          /\ Len(result.value) = Len(args.X)
          /\ InRange(result.value, Len(args.W[1]))

\* both ends of the label range are predicted by one multiclass call
C1_Witness ==
    /\ pc = "returned"
    /\ fn = "multiclass_predict"
    /\ Len(args.W[1]) = MaxClass
    /\ Len(args.X) = 2
    /\ result.value[1] = 0
    /\ result.value[2] = MaxClass - 1

NonDecreasing(v) == \A k \in 1..(Len(v) - 1) : v[k] <= v[k + 1]

StrictlyAscending(v) == \A k \in 1..(Len(v) - 1) : v[k] < v[k + 1]

FitReturned(f) == pc = "returned" /\ fn = f /\ caller = "direct"

\* C2 as stated: the theta returned by threshold_fit is strictly ascending.
C2_StrictlyAscending ==
    FitReturned("threshold_fit") => StrictlyAscending(result.value.theta)

\* C2 (amended): for every point the minimizer can return, with bounds
\* enabled and disabled, the theta returned by threshold_fit is in
\* non-decreasing order (equal neighbours are possible).
C2_NonDecreasing ==
    FitReturned("threshold_fit") => NonDecreasing(result.value.theta)

\* bounds disabled, a negative increment, and the returned theta ascending
C2_Witness ==
    /\ FitReturned("threshold_fit")
    /\ ~args.bounds
    /\ args.n_class = 3
    /\ sol.x[NFeatures + 2] < 0
    /\ result.value.theta[1] < result.value.theta[2]

RECURSIVE IntervalIndex(_, _)
\* index of the interval of the ascending thresholds into which s falls:
\* interval 0 is below sorted[1], interval k is [sorted[k], sorted[k+1])
IntervalIndex(s, sorted) ==
    IF Len(sorted) = 0 \/ s < sorted[1] THEN 0
    ELSE 1 + IntervalIndex(s, Tail(sorted))

Reorderings(v) ==
    {[k \in 1..Len(v) |-> v[p[k]]] : p \in Permutations(1..Len(v))}

\* C3: threshold_predict returns, for every sample, the number of
\* thresholds with theta_k - s <= 0; this is the index of the interval of
\* the sorted thresholds holding s, and it is the same for every ordering
\* of theta, the sorted one included.
C3_CountIsIntervalIndex ==
    (pc = "returned" /\ fn = "threshold_predict") =>
        /\ \A i \in 1..Len(args.X) :
             LET s == Dot(args.X[i], args.w)
             IN  /\ result.value[i] =
                      Cardinality({k \in 1..Len(args.theta) :
                                      args.theta[k] - s <= 0})
                 /\ result.value[i] = IntervalIndex(s, sort(args.theta))
        /\ \A t \in Reorderings(args.theta) \cup {sort(args.theta)} :
             threshold_predict(args.X, args.w, t) = result.value

\* an unsorted theta, a score equal to the lower threshold
C3_Witness ==
    /\ pc = "returned"
    /\ fn = "threshold_predict"
    /\ Len(args.theta) = 2
    /\ args.theta[1] > args.theta[2]
    /\ Dot(args.X[1], args.w) = args.theta[2]
    /\ result.value[1] = 1

\* C4: the W returned by multiclass_fit has n_features+1 rows and n_class
\* columns, every row sums to zero, and the last column is the negative
\* sum of the n_class-1 free columns taken from the minimizer's point.
C4_ColumnsSumToZero ==
    FitReturned("multiclass_fit") =>
        LET W == result.value
            K == args.n_class
        IN  /\ Len(W) = args.n_features + 1
            /\ \A f \in 1..Len(W) :
                 /\ Len(W[f]) = K
                 /\ SumSeq(W[f]) = 0
                 /\ W[f][K] = 0 - SumSeq(SubSeq(W[f], 1, K - 1))
                 /\ \A j \in 1..(K - 1) : W[f][j] = sol.x[(f - 1) * (K - 1) + j]

C4_Witness ==
    /\ FitReturned("multiclass_fit")
    /\ args.n_class = 3
    /\ result.value[1][1] # 0
    /\ result.value[1][3] # 0
    /\ result.value[2][3] # 0

\* what MarginOR.predict / MulticlassOR.predict compute from parameters p
PredictWith(cls, X, p) ==
    IF cls = "MarginOR" THEN threshold_predict(X, p.w, p.theta)
    ELSE multiclass_predict(X, p)

StoredParams(s) ==
    IF s.cls = "MarginOR" THEN [w |-> s.w_, theta |-> s.theta_] ELSE s.W_

C5_State ==
    /\ (fn = "predict" /\ ~lastfit.done) =>
          pc = "raised" /\ result.kind = "error"
    /\ (fn = "predict" /\ lastfit.done) =>
          /\ pc = "returned"
          /\ result.kind = "labels"
          /\ result.value = PredictWith(self.cls, args.X, lastfit.value)
    /\ (IsFit /\ caller = "self" /\ pc = "returned") =>
          /\ result.kind = "self"
          /\ lastfit.done
          /\ StoredParams(self) = lastfit.value

C5_Step == (fn' = "predict") => (self' = self)

\* C5: on one estimator instance, predict raises while no fit has
\* completed; a completed fit stores the parameters the fit routine
\* returned and returns the instance; predict after fits uses the
\* parameters of the most recent completed fit and leaves them unchanged.
C5_FitPredictLifecycle == [](C5_State) /\ [][C5_Step]_vars

\* a prediction made from fitted parameters
C5_Witness ==
    /\ fn = "predict"
    /\ pc = "returned"
    /\ lastfit.done
    /\ Len(args.X) = 2
    /\ result.value[1] # result.value[2]

\* C6 as stated: the iteration cap handed to the minimizer during an
\* estimator's fit is the cap given to the estimator's constructor.
C6_MaxiterReachesMinimizer ==
    (IsFit /\ caller = "self" /\ pc \in {"minimize", "minimize2"}) =>
        options = self.maxiter

ValidFitInput(a) ==
    /\ Len(a.y) = a.n_samples
    /\ a.n_class >= 2
    /\ \A i \in 1..Len(a.y) : a.y[i] \in 0..(a.n_class - 1)

\* C7 as stated: on a sample-count mismatch, n_class < 2 or a label
\* outside 0..n_class-1 the fit fails at entry: the minimizer is never
\* invoked and no parameters are returned.
C7_FailFastOnInvalidInput ==
    (IsFit /\ caller = "direct" /\ ~ValidFitInput(args)) =>
        /\ pc = "raised"
        /\ result.at = "entry"

\* C8 as stated: whenever an invocation of the minimizer reported failure,
\* the fit has emitted a diagnostic when it returns its parameters.
C8_EveryFailureDiagnosed ==
    (IsFit /\ caller = "direct" /\ pc = "returned" /\
        \E k \in 1..Len(flags) : ~flags[k]) =>
        (printed >= 1 /\ result.kind = "params")

\* number of minimizer invocations of a fit that returns
Invocations(f) == IF f = "threshold_fit" THEN 1 ELSE 2

\* C8 (amended): the fit emits one diagnostic exactly when the last
\* invocation of the minimizer (the only one of threshold_fit, the second
\* of multiclass_fit) reported failure, and returns parameters built from
\* that invocation's point; the success flag of multiclass_fit's first
\* invocation is ignored; a reported failure never raises an error and
\* never changes the number of invocations.
C8_LastFailureDiagnosed ==
    /\ (IsFit /\ caller = "direct" /\ pc = "returned") =>
          /\ Len(flags) = Invocations(fn)
          /\ sol.success = flags[Len(flags)]
          /\ printed = (IF sol.success THEN 0 ELSE 1)
          /\ result.kind = "params"
          /\ result.value =
                (IF fn = "threshold_fit"
                 THEN ThresholdReturn(sol.x, args.n_features)
                 ELSE MulticlassReturn(sol.x, args.n_features, args.n_class))
    /\ (IsFit /\ pc = "raised") => flags = <<>>

\* both invocations of multiclass_fit failed, parameters were returned
C8_Witness ==
    /\ FitReturned("multiclass_fit")
    /\ flags = <<FALSE, FALSE>>
    /\ printed = 1
    /\ result.kind = "params"

SuffixSum(v, j) == SumSeq(SubSeq(v, j, Len(v)))

\* C9: the gradient with respect to the increment c_j is the sum of
\* grad_theta over the indices j..n_class-2.
C9_GradCIsSuffixSum ==
    (pc = "returned" /\ fn = "grad_margin") =>
        /\ Len(result.value) = Len(args.grad_theta)
        /\ \A j \in 1..Len(args.grad_theta) :
             result.value[j] = SuffixSum(args.grad_theta, j)

C9_Witness ==
    /\ pc = "returned"
    /\ fn = "grad_margin"
    /\ Len(args.grad_theta) = 2
    /\ args.grad_theta[1] # 0
    /\ args.grad_theta[2] # 0
    /\ result.value[1] # result.value[2]

\* C10: with bounds enabled (n_class >= 2) the box has one entry per
\* coordinate, leaves w and c_0 free and makes exactly c_1..c_{n_class-2}
\* non-negative; the start w = 0, c = [0, 1, ..., n_class-2] is inside;
\* for the returned point theta = cumsum(c) is already non-decreasing, so
\* the final sort returns it unchanged.
C10_BoundsGiveOrder ==
    (fn = "threshold_fit" /\ caller = "direct" /\ args.bounds
        /\ args.n_class >= 2) =>
        /\ ~bnds.none
        /\ Len(bnds.lower0) = args.n_features + args.n_class - 1
        /\ \A k \in 1..Len(bnds.lower0) :
             bnds.lower0[k] <=> k >= args.n_features + 2
        /\ pc = "minimize" =>
             /\ Len(x0) = Len(bnds.lower0)
             /\ \A k \in 1..Len(x0) :
                  x0[k] = (IF k <= args.n_features THEN 0
                           ELSE k - args.n_features - 1)
             /\ InBox(x0, bnds)
        /\ pc = "returned" =>
             LET c == SubSeq(sol.x, args.n_features + 1, Len(sol.x))
             IN  /\ \A k \in 2..Len(c) : c[k] >= 0
                 /\ NonDecreasing(cumsum(c))
                 /\ result.value.theta = cumsum(c)

\* bounds enabled, a negative c_0 and a negative w were returned
C10_Witness ==
    /\ FitReturned("threshold_fit")
    /\ args.bounds
    /\ args.n_class = 3
    /\ sol.x[1] < 0
    /\ sol.x[NFeatures + 1] < 0
    /\ sol.x[NFeatures + 2] > 0
    /\ result.value.theta[1] < result.value.theta[2]

====
